---- MODULE Spec2Model ----
(***************************************************************************)
(* Governance contracts of chenaikit (contracts/governance): the           *)
(* checkpointed governance token, the voting system, the proposal manager  *)
(* and the timelock, as one state machine.  Every contract call is one     *)
(* action; a call that panics leaves the storage as it was (the host       *)
(* reverts the invocation) and only records its error in `last`.           *)
(***************************************************************************)
EXTENDS Integers, Sequences, FiniteSets, TLC

(* ---------------------------------------------------------------- bounds *)

\* Highest ledger sequence number explored.
MaxBlock == 5
\* Highest ledger sequence number explored when voting is exercised.
MaxVoteBlock == 4
\* Highest ledger sequence number explored when only the token is exercised.
MaxTokenBlock == 3
\* Ledger timestamps explored are 1..MaxTime and GRACE_PERIOD+1..GRACE_PERIOD+MaxTime.
MaxTime == 2
\* Supply minted by GovernanceToken::initialize.
InitialSupply == 2
\* Upper limit on what record_vote may add up to in one proposal.
MaxTally == 2
\* Number of proposals created in one run.
MaxProposals == 1
\* Upper limit on the sum of the balances after a second GovernanceToken::initialize.
MaxHeld == 3
\* Upper limit on the tallies of a proposal when record_vote is called with any amount.
MaxRecorded == 3
\* Number of proposals created in a run with two proposals in the Timelock.
MaxPair == 2
MaxSearchBlock == 5
MaxSearchVotes == 2

(* ------------------------------------------------------------- constants *)

\* 14 * 24 * 60 * 60 seconds
GRACE_PERIOD == 1209600

Addr == {"admin", "alice", "bob"}
Admin == "admin"
NoAddr == "none"

Support == {"Against", "For", "Abstain"}

(* ----------------------------------------------------------------- state *)

VARIABLES
    block,      \* env.ledger().sequence()
    time,       \* env.ledger().timestamp()
    total,      \* TOTAL
    balance,    \* BALANCE[account]
    allow,      \* ALLOW[owner, spender]
    delegat,    \* DELEGAT[account], NoAddr when unset
    chk,        \* CHKPT[account]: sequence of checkpoints, NUMCHK = its length
    config,     \* CONFIG of the proposal manager
    tl_delay,   \* DELAY of the timelock
    propct,     \* PROPCT
    props,      \* PROP[id], a sequence indexed by proposal id
    votes,      \* VOTE[proposal_id, voter]
    queued,     \* QUEUED: set of transaction hashes
    last        \* the last call and how it ended

tokenVars == <<total, balance, allow, delegat, chk>>
govVars == <<config, tl_delay, propct, props, votes, queued>>
vars == <<block, time, total, balance, allow, delegat, chk,
          config, tl_delay, propct, props, votes, queued, last>>

\* `last` keeps how the last call ended: "Ok", or the error it panicked with and the
\* call that raised it (what a successful call did is read from the storage)
Result(op, res) == [op |-> IF res = "Ok" THEN "call" ELSE op, res |-> res]

\* a call that returns before it reads or writes anything: the storage shows nothing
\* of it, so the call is kept by name
Returns(op) == [op |-> op, res |-> "Ok"]

(* ------------------------------------------------------ governance token *)

Checkpoint(from_block, v) == [from_block |-> from_block, votes |-> v]

_get_balance(bal, account) == bal[account]

_delegates(del, account) == IF del[account] = NoAddr THEN account ELSE del[account]

_num_checkpoints(c, account) == Len(c[account])

\* index is 0-based as in the contract
_get_checkpoint(c, account, index) == c[account][index + 1]

get_current_votes(c, account) ==
    LET num_checkpoints == _num_checkpoints(c, account)
    IN  IF num_checkpoints > 0
        THEN _get_checkpoint(c, account, num_checkpoints - 1).votes
        ELSE 0

\* the search loop without the comparison for a checkpoint of exactly block_number
RECURSIVE BinarySearch_inexact(_, _, _, _, _)
BinarySearch_inexact(c, account, block_number, lower, upper) ==
    IF upper > lower
    THEN LET center == upper - ((upper - lower) \div 2)
             checkpoint == _get_checkpoint(c, account, center)
         IN  IF checkpoint.from_block < block_number
             THEN BinarySearch_inexact(c, account, block_number, center, upper)
             ELSE BinarySearch_inexact(c, account, block_number, lower, center - 1)
    ELSE _get_checkpoint(c, account, lower).votes

RECURSIVE BinarySearch(_, _, _, _, _)
BinarySearch(c, account, block_number, lower, upper) ==
    IF upper > lower
    THEN LET center == upper - ((upper - lower) \div 2)
             checkpoint == _get_checkpoint(c, account, center)
         IN  IF checkpoint.from_block = block_number THEN checkpoint.votes
             ELSE IF checkpoint.from_block < block_number
                  THEN BinarySearch(c, account, block_number, center, upper)
                  ELSE BinarySearch(c, account, block_number, lower, center - 1)
    ELSE _get_checkpoint(c, account, lower).votes

\* the check of block_number letting the current block through
PriorVotesInvalid_current(block_number, current_block) == block_number > current_block

\* get_prior_votes panics with InvalidCheckpoint unless block_number < current_block
PriorVotesInvalid(block_number, current_block) == block_number >= current_block

\* get_prior_votes answering with the newest checkpoint whatever the block asked for
get_prior_votes_newest(c, account, block_number) ==
    get_current_votes(c, account)

get_prior_votes(c, account, block_number) ==
    LET num_checkpoints == _num_checkpoints(c, account)
    IN  IF num_checkpoints = 0 THEN 0
        ELSE IF _get_checkpoint(c, account, num_checkpoints - 1).from_block <= block_number
             THEN _get_checkpoint(c, account, num_checkpoints - 1).votes
        ELSE IF _get_checkpoint(c, account, 0).from_block > block_number THEN 0
        ELSE BinarySearch(c, account, block_number, 0, num_checkpoints - 1)

\* the call of get_prior_votes as its caller sees it: the panic, or the votes returned
get_prior_votes_call(account, block_number) ==
    /\ last' = [op |-> "get_prior_votes",
                res |-> IF PriorVotesInvalid(block_number, block)
                        THEN "InvalidCheckpoint" ELSE "Ok",
                account |-> account,
                block_number |-> block_number,
                votes |-> IF PriorVotesInvalid(block_number, block)
                          THEN 0 ELSE get_prior_votes(chk, account, block_number)]
    /\ UNCHANGED <<block, time, tokenVars, govVars>>

\* _write_checkpoint that never reuses the last checkpoint
_write_checkpoint_append(c, account, new_votes, current_block) ==
    [c EXCEPT ![account] = Append(@, Checkpoint(current_block, new_votes))]

\* _write_checkpoint without the comparison of the last checkpoint's block
_write_checkpoint_overwrite(c, account, new_votes, current_block) ==
    LET num_checkpoints == _num_checkpoints(c, account)
    IN  IF num_checkpoints > 0
        THEN [c EXCEPT ![account][num_checkpoints] = Checkpoint(current_block, new_votes)]
        ELSE [c EXCEPT ![account] = Append(@, Checkpoint(current_block, new_votes))]

_write_checkpoint(c, account, new_votes, current_block) ==
    LET num_checkpoints == _num_checkpoints(c, account)
    IN  IF /\ num_checkpoints > 0
           /\ _get_checkpoint(c, account, num_checkpoints - 1).from_block = current_block
        THEN [c EXCEPT ![account][num_checkpoints] = Checkpoint(current_block, new_votes)]
        ELSE [c EXCEPT ![account] = Append(@, Checkpoint(current_block, new_votes))]

\* _move_delegates that adds the votes to `to` and leaves those of `from`
_move_delegates_added(c, from, to, amount, current_block) ==
    IF from # to /\ amount > 0
    THEN _write_checkpoint(c, to, get_current_votes(c, to) + amount, current_block)
    ELSE c

_move_delegates(c, from, to, amount, current_block) ==
    IF from # to /\ amount > 0
    THEN LET from_votes == get_current_votes(c, from)
             new_from_votes == IF from_votes >= amount THEN from_votes - amount ELSE 0
             c1 == _write_checkpoint(c, from, new_from_votes, current_block)
             to_votes == get_current_votes(c1, to)
         IN  _write_checkpoint(c1, to, to_votes + amount, current_block)
    ELSE c

\* balances computed from what both accounts held before the call
MoveBalance_stale(bal, from, to, amount) ==
    LET b1 == [bal EXCEPT ![from] = bal[from] - amount]
    IN  [b1 EXCEPT ![to] = bal[to] + amount]

\* balances after moving amount from `from` to `to` (the second read sees the first write)
MoveBalance(bal, from, to, amount) ==
    LET b1 == [bal EXCEPT ![from] = bal[from] - amount]
    IN  [b1 EXCEPT ![to] = b1[to] + amount]

\* transfer without the return for amount 0, comparing the balance with <=
transfer_zero_refused(from, to, amount) ==
    /\ IF _get_balance(balance, from) <= amount
       THEN /\ last' = Result("transfer", "InsufficientBalance")
            /\ UNCHANGED tokenVars
       ELSE /\ balance' = MoveBalance(balance, from, to, amount)
            /\ chk' = _move_delegates(chk, _delegates(delegat, from), _delegates(delegat, to),
                                      amount, block)
            /\ last' = Result("transfer", "Ok")
            /\ UNCHANGED <<total, allow, delegat>>
    /\ UNCHANGED <<block, time, govVars>>

transfer(from, to, amount) ==
    /\ IF amount = 0
       THEN /\ last' = Returns("transfer")
            /\ UNCHANGED tokenVars
       ELSE IF _get_balance(balance, from) < amount
       THEN /\ last' = Result("transfer", "InsufficientBalance")
            /\ UNCHANGED tokenVars
       ELSE /\ balance' = MoveBalance(balance, from, to, amount)
            /\ chk' = _move_delegates(chk, _delegates(delegat, from), _delegates(delegat, to),
                                      amount, block)
            /\ last' = Result("transfer", "Ok")
            /\ UNCHANGED <<total, allow, delegat>>
    /\ UNCHANGED <<block, time, govVars>>

approve(owner, spender, amount) ==
    /\ /\ allow' = [allow EXCEPT ![owner, spender] = amount]
       /\ last' = Result("approve", "Ok")
       /\ UNCHANGED <<total, balance, delegat, chk>>
    /\ UNCHANGED <<block, time, govVars>>

\* transfer_from whose failure on the balance keeps the allowance it has written
transfer_from_partial(spender, from, to, amount) ==
    /\ IF amount = 0
       THEN /\ last' = Returns("transfer_from")
            /\ UNCHANGED tokenVars
       ELSE IF allow[from, spender] < amount
       THEN /\ last' = Result("transfer_from", "InsufficientBalance")
            /\ UNCHANGED tokenVars
       ELSE IF _get_balance(balance, from) < amount
       THEN /\ allow' = [allow EXCEPT ![from, spender] = @ - amount]
            /\ last' = Result("transfer_from", "InsufficientBalance")
            /\ UNCHANGED <<total, balance, delegat, chk>>
       ELSE /\ allow' = [allow EXCEPT ![from, spender] = @ - amount]
            /\ balance' = MoveBalance(balance, from, to, amount)
            /\ chk' = _move_delegates(chk, _delegates(delegat, from), _delegates(delegat, to),
                                      amount, block)
            /\ last' = Result("transfer_from", "Ok")
            /\ UNCHANGED <<total, delegat>>
    /\ UNCHANGED <<block, time, govVars>>

transfer_from(spender, from, to, amount) ==
    /\ IF amount = 0
       THEN /\ last' = Returns("transfer_from")
            /\ UNCHANGED tokenVars
       ELSE IF allow[from, spender] < amount \/ _get_balance(balance, from) < amount
       THEN /\ last' = Result("transfer_from", "InsufficientBalance")
            /\ UNCHANGED tokenVars
       ELSE /\ allow' = [allow EXCEPT ![from, spender] = @ - amount]
            /\ balance' = MoveBalance(balance, from, to, amount)
            /\ chk' = _move_delegates(chk, _delegates(delegat, from), _delegates(delegat, to),
                                      amount, block)
            /\ last' = Result("transfer_from", "Ok")
            /\ UNCHANGED <<total, delegat>>
    /\ UNCHANGED <<block, time, govVars>>

delegate(delegator, delegatee) ==
    /\ LET current_delegate == _delegates(delegat, delegator)
           delegator_balance == _get_balance(balance, delegator)
       IN  /\ delegat' = [delegat EXCEPT ![delegator] = delegatee]
           /\ chk' = _move_delegates(chk, current_delegate, delegatee, delegator_balance, block)
           /\ last' = Result("delegate", "Ok")
           /\ UNCHANGED <<total, balance, allow>>
    /\ UNCHANGED <<block, time, govVars>>

\* initialize has no guard against a second call: it mints initial_supply to the
\* admin it is given over whatever that account held, and writes the admin's checkpoint
GovernanceToken_initialize(admin, initial_supply) ==
    /\ /\ total' = initial_supply
       /\ balance' = [balance EXCEPT ![admin] = initial_supply]
       /\ chk' = _write_checkpoint(chk, admin, initial_supply, block)
       /\ last' = Result("initialize", "Ok")
       /\ UNCHANGED <<allow, delegat>>
    /\ UNCHANGED <<block, time, govVars>>

(* ------------------------------------------------------------ the ledger *)

\* The host closes a ledger: the sequence number grows.
CloseLedger(max) ==
    /\ block < max
    /\ block' = block + 1
    /\ last' = Result("ledger", "Ok")
    /\ UNCHANGED <<time, tokenVars, govVars>>

(* ---------------------------------------------------------- voting system *)

NoVote == [has_voted |-> FALSE, support |-> "Against", votes |-> 0]

VoteRecord(support, v) == [has_voted |-> TRUE, support |-> support, votes |-> v]

has_voted(vt, proposal_id, voter) == vt[proposal_id, voter].has_voted

\* cast_vote without the has_voted check
cast_vote_result_revote(proposal_id, snapshot_block, voter) ==
    IF PriorVotesInvalid(snapshot_block, block) THEN "InvalidCheckpoint"
    ELSE IF get_prior_votes(chk, voter, snapshot_block) = 0 THEN "InsufficientBalance"
    ELSE "Ok"

\* the error cast_vote panics with, "Ok" when it stores a record
cast_vote_result(proposal_id, snapshot_block, voter) ==
    IF has_voted(votes, proposal_id, voter) THEN "AlreadyVoted"
    ELSE IF PriorVotesInvalid(snapshot_block, block) THEN "InvalidCheckpoint"
    ELSE IF get_prior_votes(chk, voter, snapshot_block) = 0 THEN "InsufficientBalance"
    ELSE "Ok"

cast_vote(proposal_id, snapshot_block, voter, support) ==
    /\ LET res == cast_vote_result(proposal_id, snapshot_block, voter)
       IN  /\ last' = Result("cast_vote", res)
           /\ IF res = "Ok"
              THEN votes' = [votes EXCEPT ![proposal_id, voter] =
                               VoteRecord(support, get_prior_votes(chk, voter, snapshot_block))]
              ELSE UNCHANGED votes
           /\ UNCHANGED <<config, tl_delay, propct, props, queued>>
    /\ UNCHANGED <<block, time, tokenVars>>

\* quorum_reached asking for more votes than the quorum
quorum_reached_above(total_supply, for_votes, against_votes, abstain_votes, quorum_numerator) ==
    for_votes + against_votes + abstain_votes > (total_supply * quorum_numerator) \div 100

quorum_reached(total_supply, for_votes, against_votes, abstain_votes, quorum_numerator) ==
    LET total_votes == for_votes + against_votes + abstain_votes
        quorum == (total_supply * quorum_numerator) \div 100
    IN  total_votes >= quorum

\* proposal_succeeded letting a tie pass
proposal_succeeded_tie(total_supply, for_votes, against_votes, abstain_votes, quorum_numerator) ==
    /\ quorum_reached(total_supply, for_votes, against_votes, abstain_votes, quorum_numerator)
    /\ for_votes >= against_votes

proposal_succeeded(total_supply, for_votes, against_votes, abstain_votes, quorum_numerator) ==
    IF ~quorum_reached(total_supply, for_votes, against_votes, abstain_votes, quorum_numerator)
    THEN FALSE
    ELSE for_votes > against_votes

\* a read-only call as its caller sees it: the value returned
Returned(op, value) == [op |-> op, res |-> "Ok", value |-> value]

\* VotingSystem::quorum_reached called with the tallies of a proposal
quorum_reached_call(proposal, quorum_numerator) ==
    /\ last' = Returned("quorum_reached",
                        quorum_reached(total, proposal.for_votes, proposal.against_votes,
                                       proposal.abstain_votes, quorum_numerator))
    /\ UNCHANGED <<block, time, tokenVars, govVars>>

\* VotingSystem::proposal_succeeded called with the tallies of a proposal
proposal_succeeded_call(proposal, quorum_numerator) ==
    /\ last' = Returned("proposal_succeeded",
                        proposal_succeeded(total, proposal.for_votes, proposal.against_votes,
                                           proposal.abstain_votes, quorum_numerator))
    /\ UNCHANGED <<block, time, tokenVars, govVars>>

(* --------------------------------------------------------------- timelock *)

\* keccak256 over value || data || eta: the target is not hashed
_get_tx_hash(target, value, data, eta) == <<value, data, eta>>

is_queued(q, tx_hash) == tx_hash \in q

\* one call's outcome: the error, and the queue after it
TlResult(err, q) == [err |-> err, q |-> q]

\* queue_transaction comparing eta with the current time only
queue_transaction_no_delay(q, target, value, data, eta, current_time, delay) ==
    IF eta < current_time THEN TlResult("TimelockNotExpired", q)
    ELSE TlResult("Ok", q \cup {_get_tx_hash(target, value, data, eta)})

queue_transaction(q, target, value, data, eta, current_time, delay) ==
    IF eta < current_time + delay THEN TlResult("TimelockNotExpired", q)
    ELSE TlResult("Ok", q \cup {_get_tx_hash(target, value, data, eta)})

execute_transaction(q, target, value, data, eta, current_time) ==
    LET tx_hash == _get_tx_hash(target, value, data, eta)
    IN  IF ~is_queued(q, tx_hash) THEN TlResult("InvalidState", q)
        ELSE IF current_time < eta THEN TlResult("TimelockNotExpired", q)
        ELSE IF current_time > eta + GRACE_PERIOD THEN TlResult("InvalidState", q)
        ELSE TlResult("Ok", q \ {tx_hash})

\* cancel_transaction leaving the entry in place
cancel_transaction_kept(q, target, value, data, eta) ==
    TlResult("Ok", q)

\* cancel_transaction refusing an entry that is not queued
cancel_transaction_queued_only(q, target, value, data, eta) ==
    IF ~is_queued(q, _get_tx_hash(target, value, data, eta)) THEN TlResult("InvalidState", q)
    ELSE TlResult("Ok", q \ {_get_tx_hash(target, value, data, eta)})

cancel_transaction(q, target, value, data, eta) ==
    TlResult("Ok", q \ {_get_tx_hash(target, value, data, eta)})

\* what a call of the Timelock by its admin leaves in `last`: the error it panicked
\* with, or the hash it returns and publishes
TimelockReturn(op, r, tx_hash) ==
    IF r.err = "Ok" THEN Returned(op, tx_hash) ELSE Result(op, r.err)

Timelock_queue_transaction(target, value, data, eta) ==
    LET r == queue_transaction(queued, target, value, data, eta, time, tl_delay)
    IN  /\ queued' = r.q
        /\ last' = TimelockReturn("queue_transaction", r, _get_tx_hash(target, value, data, eta))
        /\ UNCHANGED <<config, tl_delay, propct, props, votes>>
        /\ UNCHANGED <<block, time, tokenVars>>

Timelock_execute_transaction(target, value, data, eta) ==
    LET r == execute_transaction(queued, target, value, data, eta, time)
    IN  /\ queued' = r.q
        /\ last' = TimelockReturn("execute_transaction", r,
                                  _get_tx_hash(target, value, data, eta))
        /\ UNCHANGED <<config, tl_delay, propct, props, votes>>
        /\ UNCHANGED <<block, time, tokenVars>>

Timelock_cancel_transaction(target, value, data, eta) ==
    LET r == cancel_transaction(queued, target, value, data, eta)
    IN  /\ queued' = r.q
        /\ last' = TimelockReturn("cancel_transaction", r,
                                  _get_tx_hash(target, value, data, eta))
        /\ UNCHANGED <<config, tl_delay, propct, props, votes>>
        /\ UNCHANGED <<block, time, tokenVars>>

(* ------------------------------------------------------- proposal manager *)

GovernanceConfig(vd, vp, pt, qn, td) ==
    [voting_delay |-> vd, voting_period |-> vp, proposal_threshold |-> pt,
     quorum_numerator |-> qn, timelock_delay |-> td]

\* _get_proposal panics with InvalidProposal when the id was never stored
ProposalExists(ps, proposal_id) == proposal_id \in DOMAIN ps

\* state() closing the voting window one block early
state_early_close(ps, proposal_id, current_block, current_time, cfg, total_supply) ==
    LET proposal == ps[proposal_id]
    IN  IF proposal.canceled THEN "Canceled"
        ELSE IF proposal.executed THEN "Executed"
        ELSE IF current_block < proposal.start_block THEN "Pending"
        ELSE IF current_block < proposal.end_block THEN "Active"
        ELSE IF ~proposal_succeeded(total_supply, proposal.for_votes, proposal.against_votes,
                                    proposal.abstain_votes, cfg.quorum_numerator)
             THEN "Defeated"
        ELSE IF proposal.eta = 0 THEN "Succeeded"
        ELSE IF current_time > proposal.eta + GRACE_PERIOD THEN "Expired"
        ELSE "Queued"

state(ps, proposal_id, current_block, current_time, cfg, total_supply) ==
    LET proposal == ps[proposal_id]
    IN  IF proposal.canceled THEN "Canceled"
        ELSE IF proposal.executed THEN "Executed"
        ELSE IF current_block < proposal.start_block THEN "Pending"
        ELSE IF current_block <= proposal.end_block THEN "Active"
        ELSE IF ~proposal_succeeded(total_supply, proposal.for_votes, proposal.against_votes,
                                    proposal.abstain_votes, cfg.quorum_numerator)
             THEN "Defeated"
        ELSE IF proposal.eta = 0 THEN "Succeeded"
        ELSE IF current_time > proposal.eta + GRACE_PERIOD THEN "Expired"
        ELSE "Queued"

\* state() as the contract would answer now
State(proposal_id) == state(props, proposal_id, block, time, config, total)

\* ProposalManager::state as its caller sees it
state_call(proposal_id) ==
    /\ IF ~ProposalExists(props, proposal_id)
       THEN last' = Result("state", "InvalidProposal")
       ELSE last' = Returned("state", State(proposal_id))
    /\ UNCHANGED <<block, time, tokenVars, govVars>>

\* propose without the validation of the arrays
propose_result_unvalidated(proposer, targets, values, calldatas) ==
    IF get_prior_votes(chk, proposer, block - 1) < config.proposal_threshold
    THEN "BelowProposalThreshold"
    ELSE "Ok"

\* propose measuring the proposer's power in the block of the call
propose_result_current(proposer, targets, values, calldatas) ==
    IF Len(targets) # Len(values) \/ Len(targets) # Len(calldatas) THEN "ArrayLengthMismatch"
    ELSE IF Len(targets) = 0 THEN "InvalidProposal"
    ELSE IF get_current_votes(chk, proposer) < config.proposal_threshold
         THEN "BelowProposalThreshold"
    ELSE "Ok"

propose_result(proposer, targets, values, calldatas) ==
    IF Len(targets) # Len(values) \/ Len(targets) # Len(calldatas) THEN "ArrayLengthMismatch"
    ELSE IF Len(targets) = 0 THEN "InvalidProposal"
    ELSE IF get_prior_votes(chk, proposer, block - 1) < config.proposal_threshold
         THEN "BelowProposalThreshold"
    ELSE "Ok"

_next_proposal_id(count) == count + 1

\* initialize has no guard against a second call: it writes CONFIG and PROPCT again
\* and leaves PROP as it is.  ADMIN is written with the address it already holds.
ProposalManager_initialize(admin, new_config) ==
    /\ /\ config' = new_config
       /\ propct' = 0
       /\ last' = Result("initialize", "Ok")
       /\ UNCHANGED <<tl_delay, props, votes, queued>>
    /\ UNCHANGED <<block, time, tokenVars>>

\* PROP[proposal_id] after set(): the entry is created, or replaced when the id is in use
SetProposal(ps, proposal_id, proposal) ==
    IF proposal_id \in DOMAIN ps THEN [ps EXCEPT ![proposal_id] = proposal]
    ELSE Append(ps, proposal)

propose(proposer, targets, values, calldatas) ==
    /\ LET res == propose_result(proposer, targets, values, calldatas)
           proposal_id == _next_proposal_id(propct)
           start_block == block + config.voting_delay
           end_block == start_block + config.voting_period
       IN  /\ last' = Result("propose", res)
           /\ IF res = "Ok"
              THEN /\ propct' = proposal_id
                   /\ props' = SetProposal(props, proposal_id,
                         [id |-> proposal_id, proposer |-> proposer, targets |-> targets,
                          values |-> values, calldatas |-> calldatas,
                          start_block |-> start_block, end_block |-> end_block,
                          for_votes |-> 0, against_votes |-> 0, abstain_votes |-> 0,
                          canceled |-> FALSE, executed |-> FALSE, eta |-> 0])
              ELSE UNCHANGED <<propct, props>>
           /\ UNCHANGED <<config, tl_delay, votes, queued>>
    /\ UNCHANGED <<block, time, tokenVars>>

\* the loop of queue(): every entry goes through Timelock::queue_transaction
RECURSIVE QueueAll(_, _, _, _)
QueueAll(q, proposal, eta, i) ==
    IF i > Len(proposal.targets) THEN TlResult("Ok", q)
    ELSE LET r == queue_transaction(q, proposal.targets[i], proposal.values[i],
                                    proposal.calldatas[i], eta, time, tl_delay)
         IN  IF r.err # "Ok" THEN r ELSE QueueAll(r.q, proposal, eta, i + 1)

\* the eta of queue() without the delay
queue_eta_now(current_time, timelock_delay) == current_time

\* the eta queue() computes
queue_eta(current_time, timelock_delay) == current_time + timelock_delay

\* queue without the check of the proposal's state
queue_result_any_state(proposal_id) ==
    IF ~ProposalExists(props, proposal_id) THEN "InvalidProposal"
    ELSE QueueAll(queued, props[proposal_id], queue_eta(time, config.timelock_delay), 1).err

\* the error queue panics with, "Ok" when it queues the proposal
queue_result(proposal_id) ==
    IF ~ProposalExists(props, proposal_id) THEN "InvalidProposal"
    ELSE IF State(proposal_id) # "Succeeded" THEN "ProposalNotSucceeded"
    ELSE QueueAll(queued, props[proposal_id], queue_eta(time, config.timelock_delay), 1).err

queue(proposal_id) ==
    LET res == queue_result(proposal_id)
        eta == queue_eta(time, config.timelock_delay)
    IN  /\ last' = Result("queue", res)
        /\ IF res = "Ok"
           THEN /\ queued' = QueueAll(queued, props[proposal_id], eta, 1).q
                /\ props' = [props EXCEPT ![proposal_id].eta = eta]
           ELSE UNCHANGED <<queued, props>>
        /\ UNCHANGED <<config, tl_delay, propct, votes>>
        /\ UNCHANGED <<block, time, tokenVars>>

\* the loop of execute(): every entry goes through Timelock::execute_transaction
RECURSIVE ExecuteAll(_, _, _)
ExecuteAll(q, proposal, i) ==
    IF i > Len(proposal.targets) THEN TlResult("Ok", q)
    ELSE LET r == execute_transaction(q, proposal.targets[i], proposal.values[i],
                                      proposal.calldatas[i], proposal.eta, time)
         IN  IF r.err # "Ok" THEN r ELSE ExecuteAll(r.q, proposal, i + 1)

\* execute without the check of the proposal's state
execute_result_any_state(proposal_id) ==
    IF ~ProposalExists(props, proposal_id) THEN "InvalidProposal"
    ELSE IF time < props[proposal_id].eta THEN "TimelockNotExpired"
    ELSE ExecuteAll(queued, props[proposal_id], 1).err

\* the error execute panics with, "Ok" when it executes the proposal
execute_result(proposal_id) ==
    IF ~ProposalExists(props, proposal_id) THEN "InvalidProposal"
    ELSE IF State(proposal_id) # "Queued" THEN "InvalidState"
    ELSE IF time < props[proposal_id].eta THEN "TimelockNotExpired"
    ELSE ExecuteAll(queued, props[proposal_id], 1).err

\* execute whose failure in the Timelock keeps the entries removed before it
execute_partial(proposal_id) ==
    LET res == execute_result(proposal_id)
    IN  /\ last' = Result("execute", res)
        /\ IF res = "Ok"
           THEN /\ queued' = ExecuteAll(queued, props[proposal_id], 1).q
                /\ props' = [props EXCEPT ![proposal_id].executed = TRUE]
           ELSE IF /\ ProposalExists(props, proposal_id)
                   /\ State(proposal_id) = "Queued"
                   /\ time >= props[proposal_id].eta
           THEN /\ queued' = ExecuteAll(queued, props[proposal_id], 1).q
                /\ UNCHANGED props
           ELSE UNCHANGED <<queued, props>>
        /\ UNCHANGED <<config, tl_delay, propct, votes>>
        /\ UNCHANGED <<block, time, tokenVars>>

execute(proposal_id) ==
    LET res == execute_result(proposal_id)
    IN  /\ last' = Result("execute", res)
        /\ IF res = "Ok"
           THEN /\ queued' = ExecuteAll(queued, props[proposal_id], 1).q
                /\ props' = [props EXCEPT ![proposal_id].executed = TRUE]
           ELSE UNCHANGED <<queued, props>>
        /\ UNCHANGED <<config, tl_delay, propct, votes>>
        /\ UNCHANGED <<block, time, tokenVars>>

\* the loop of cancel(): every entry goes through Timelock::cancel_transaction
RECURSIVE CancelAll(_, _, _)
CancelAll(q, proposal, i) ==
    IF i > Len(proposal.targets) THEN q
    ELSE CancelAll(cancel_transaction(q, proposal.targets[i], proposal.values[i],
                                      proposal.calldatas[i], proposal.eta).q,
                   proposal, i + 1)

\* cancel without the check of the executed flag
cancel_result_after_execution(proposal_id, canceller) ==
    IF ~ProposalExists(props, proposal_id) THEN "InvalidProposal"
    ELSE IF canceller # props[proposal_id].proposer /\ canceller # Admin THEN "Unauthorized"
    ELSE "Ok"

\* cancel without the comparison of the canceller with the proposer and the admin
cancel_result_anyone(proposal_id, canceller) ==
    IF ~ProposalExists(props, proposal_id) THEN "InvalidProposal"
    ELSE IF props[proposal_id].executed THEN "ProposalAlreadyExecuted"
    ELSE "Ok"

\* the error cancel panics with, "Ok" when it cancels the proposal
cancel_result(proposal_id, canceller) ==
    IF ~ProposalExists(props, proposal_id) THEN "InvalidProposal"
    ELSE IF canceller # props[proposal_id].proposer /\ canceller # Admin THEN "Unauthorized"
    ELSE IF props[proposal_id].executed THEN "ProposalAlreadyExecuted"
    ELSE "Ok"

cancel(proposal_id, canceller) ==
    LET res == cancel_result(proposal_id, canceller)
    IN  /\ last' = Result("cancel", res)
        /\ IF res = "Ok"
           THEN /\ props' = [props EXCEPT ![proposal_id].canceled = TRUE]
                /\ queued' = IF props[proposal_id].eta > 0
                             THEN CancelAll(queued, props[proposal_id], 1)
                             ELSE queued
           ELSE UNCHANGED <<queued, props>>
        /\ UNCHANGED <<config, tl_delay, propct, votes>>
        /\ UNCHANGED <<block, time, tokenVars>>

record_vote(proposal_id, support, v) ==
    /\ IF ~ProposalExists(props, proposal_id)
       THEN last' = Result("record_vote", "InvalidProposal") /\ UNCHANGED govVars
       ELSE /\ props' = [props EXCEPT ![proposal_id] =
                    CASE support = "For" -> [@ EXCEPT !.for_votes = @ + v]
                      [] support = "Against" -> [@ EXCEPT !.against_votes = @ + v]
                      [] support = "Abstain" -> [@ EXCEPT !.abstain_votes = @ + v]]
            /\ last' = Result("record_vote", "Ok")
            /\ UNCHANGED <<config, tl_delay, propct, votes, queued>>
    /\ UNCHANGED <<block, time, tokenVars>>

update_config(admin, new_config) ==
    /\ IF admin # Admin
       THEN last' = Result("update_config", "Unauthorized") /\ UNCHANGED govVars
       ELSE /\ config' = new_config
            /\ last' = Result("update_config", "Ok")
            /\ UNCHANGED <<tl_delay, propct, props, votes, queued>>
    /\ UNCHANGED <<block, time, tokenVars>>

(* -------------------------------------------------------- specifications *)

\* what the admin hands to alice in the ledger of initialize, before anything else
Distributions == {0, 1}

\* GovernanceToken::initialize(admin, .., InitialSupply) at ledger 1, and the
\* distribution of the supply that follows it in the same ledger
InitToken == \E k \in Distributions :
    LET minted == [a \in Addr |-> IF a = Admin THEN InitialSupply ELSE 0]
        written == _write_checkpoint([a \in Addr |-> <<>>], Admin, InitialSupply, 1)
    IN  /\ total = InitialSupply
        /\ balance = MoveBalance(minted, Admin, "alice", k)
        /\ allow = [o \in Addr, s \in Addr |-> 0]
        /\ delegat = [a \in Addr |-> NoAddr]
        /\ chk = _move_delegates(written, Admin, "alice", k, 1)

\* configurations given to ProposalManager::initialize and update_config
Config0 == GovernanceConfig(1, 1, 1, 50, 1)
Config1 == GovernanceConfig(0, 1, 2, 100, 0)
ConfigSet == {Config0, Config1}

\* delays given to Timelock::initialize
DelaySet == {0, 1}

\* ProposalManager::initialize and Timelock::initialize
InitGov ==
    /\ config \in ConfigSet
    /\ tl_delay \in DelaySet
    /\ propct = 0
    /\ props = <<>>
    /\ votes = [p \in 1..MaxProposals, a \in Addr |-> NoVote]
    /\ queued = {}

Init ==
    /\ block = 1
    /\ time = 1
    /\ InitToken
    /\ InitGov
    /\ last = Result("initialize", "Ok")

Amounts == 0..InitialSupply

\* (targets, values, calldatas) handed to propose
Actions(targets, values, calldatas) ==
    [targets |-> targets, values |-> values, calldatas |-> calldatas]
ProposalInputs ==
    { Actions(<<"t1">>, <<0>>, <<"d1">>),
      Actions(<<"t1", "t2">>, <<0, 0>>, <<"d1", "d1">>),
      Actions(<<"t1", "t2">>, <<0, 0>>, <<"d1", "d2">>),
      Actions(<<"t1">>, <<0, 0>>, <<"d1">>),
      Actions(<<"t1">>, <<0>>, <<>>),
      Actions(<<>>, <<>>, <<>>) }

TimeSteps == {1, GRACE_PERIOD}
Times == (1..MaxTime) \cup {GRACE_PERIOD + t : t \in 1..MaxTime}

\* The host's clock moves on.
AdvanceTime == \E d \in TimeSteps :
    /\ time + d \in Times
    /\ time' = time + d
    /\ last' = Result("clock", "Ok")
    /\ UNCHANGED <<block, tokenVars, govVars>>

\* accounts that hold and move tokens, the account that delegates, and the
\* (owner, spender) pair of the allowance that is exercised
Holders == {"admin", "alice"}
Delegators == {"alice"}
Owners == {"admin"}
Spenders == {"bob"}

AdvanceBlock == CloseLedger(MaxBlock)

VoteAdvanceBlock == CloseLedger(MaxVoteBlock)

TokenAdvanceBlock == CloseLedger(MaxTokenBlock)

Transfer == \E from \in Holders, to \in Holders, amount \in Amounts :
    transfer(from, to, amount)

Approve == \E owner \in Owners, spender \in Spenders, amount \in Amounts :
    approve(owner, spender, amount)

TransferFrom == \E spender \in Spenders, from \in Holders, to \in Holders, amount \in Amounts :
    transfer_from(spender, from, to, amount)

Delegate == \E delegator \in Delegators, delegatee \in Addr :
    delegate(delegator, delegatee)

Propose == \E proposer \in Addr, in \in ProposalInputs :
    /\ propct < MaxProposals
    /\ propose(proposer, in.targets, in.values, in.calldatas)

\* propose with a single action, where what the proposal would execute plays no part
ProposeOne == \E proposer \in Addr :
    /\ propct < MaxProposals
    /\ propose(proposer, <<"t1">>, <<0>>, <<"d1">>)

CastVote == \E proposal_id \in 1..MaxProposals, snapshot_block \in 1..MaxVoteBlock,
               voter \in Holders, support \in Support :
    cast_vote(proposal_id, snapshot_block, voter, support)

RecordVote == \E proposal_id \in 1..MaxProposals, support \in Support, v \in 1..MaxTally :
    /\ ProposalExists(props, proposal_id) =>
         props[proposal_id].for_votes + props[proposal_id].against_votes
           + props[proposal_id].abstain_votes + v <= MaxTally
    /\ record_vote(proposal_id, support, v)

Queue == \E proposal_id \in 1..MaxProposals :
    queue(proposal_id)

Execute == \E proposal_id \in 1..MaxProposals :
    execute(proposal_id)

Cancel == \E proposal_id \in 1..MaxProposals, canceller \in Addr :
    cancel(proposal_id, canceller)

UpdateConfig == \E admin \in Addr, new_config \in ConfigSet :
    update_config(admin, new_config)

\* a second ProposalManager::initialize, authorized by the admin it names
Initialize == \E new_config \in ConfigSet :
    ProposalManager_initialize(Admin, new_config)

Next ==
    \/ AdvanceBlock
    \/ AdvanceTime
    \/ Propose
    \/ RecordVote
    \/ Queue
    \/ Execute
    \/ Cancel
    \/ UpdateConfig
    \/ Initialize

Spec == Init /\ [][Next]_vars

NextVote ==
    \/ VoteAdvanceBlock
    \/ Transfer
    \/ ProposeOne
    \/ CastVote

\* the timelock plays no part in voting; voting opens in the ledger of propose
InitVote == Init /\ config = Config1 /\ tl_delay = 0

SpecVote == InitVote /\ [][NextVote]_vars

NextToken ==
    \/ TokenAdvanceBlock
    \/ Transfer
    \/ Approve
    \/ TransferFrom
    \/ Delegate

\* the governance contracts play no part in the token
InitTokenOnly == Init /\ config = Config0 /\ tl_delay = 0

SpecToken == InitTokenOnly /\ [][NextToken]_vars

\* cast_vote as the lifecycle uses it: a holder votes For with the proposal's
\* start_block as snapshot_block
LifeCastVote == \E proposal_id \in 1..MaxProposals, voter \in Holders :
    /\ ProposalExists(props, proposal_id)
    /\ cast_vote(proposal_id, props[proposal_id].start_block, voter, "For")

NextLife ==
    \/ AdvanceBlock
    \/ AdvanceTime
    \/ Propose
    \/ LifeCastVote
    \/ RecordVote
    \/ Queue
    \/ Execute

\* propose, vote, queue and execute with the configuration left as initialized
SpecLife == Init /\ [][NextLife]_vars

NextPropose ==
    \/ TokenAdvanceBlock
    \/ Transfer
    \/ Delegate
    \/ Propose

\* the Timelock takes no part in propose
InitPropose == Init /\ tl_delay = 0

\* the token moves and is delegated while proposals are made
SpecPropose == InitPropose /\ [][NextPropose]_vars

\* the sum of the balances
Held(bal) == bal["admin"] + bal["alice"] + bal["bob"]

\* a second GovernanceToken::initialize, authorized by the admin it names
Mint == \E admin \in Owners :
    /\ Held(balance) - balance[admin] + InitialSupply <= MaxHeld
    /\ GovernanceToken_initialize(admin, InitialSupply)

NextMint ==
    \/ TokenAdvanceBlock
    \/ Transfer
    \/ Delegate
    \/ Mint

\* the token with initialize called again
SpecMint == InitTokenOnly /\ [][NextMint]_vars

RECURSIVE Ascending(_)
\* the blocks of S in the order _write_checkpoint meets them
Ascending(S) ==
    IF S = {} THEN <<>>
    ELSE LET m == CHOOSE x \in S : \A y \in S : y <= x
         IN  Append(Ascending(S \ {m}), m)

\* the checkpoint lists _write_checkpoint can have built by ledger current_block: at
\* most one checkpoint per ledger, in the order of the ledgers, with any votes
CheckpointLists(current_block) ==
    UNION { { [i \in 1..Cardinality(S) |-> Checkpoint(Ascending(S)[i], v[Ascending(S)[i]])] :
                v \in [S -> 0..MaxSearchVotes] } :
            S \in SUBSET (1..current_block) }

\* alice holds one of the checkpoint lists, bob and the admin hold none
InitSearch ==
    /\ block \in 1..MaxSearchBlock
    /\ time = 1
    /\ total = InitialSupply
    /\ balance = [a \in Addr |-> IF a = "alice" THEN InitialSupply ELSE 0]
    /\ allow = [o \in Addr, s \in Addr |-> 0]
    /\ delegat = [a \in Addr |-> NoAddr]
    /\ chk \in { [a \in Addr |-> IF a = "alice" THEN l ELSE <<>>] : l \in CheckpointLists(block) }
    /\ InitGov /\ config = Config0 /\ tl_delay = 0
    /\ last = Result("initialize", "Ok")

GetPriorVotes == \E account \in {"alice", "bob"}, block_number \in 0..(MaxSearchBlock + 1) :
    get_prior_votes_call(account, block_number)

NextSearch ==
    \/ GetPriorVotes

\* get_prior_votes asked about every block, over every checkpoint list
SpecSearch == InitSearch /\ [][NextSearch]_vars

\* supplies, quorum numerators and tallies around the quorum of test_quorum_calculation
\* (1,000,000 tokens, 50%) and around the smallest quorums
SupplySet == {0, 1, 3, 1000000}
NumeratorSet == {0, 1, 33, 50, 100}
ForSet == {0, 1, 2, 499999, 500000}
AgainstSet == {0, 1, 2, 499999}
AbstainSet == {0, 1}

\* a proposal of the admin with the tallies given, voted in ledgers 1..2
Tallied(for_votes, against_votes, abstain_votes) ==
    [id |-> 1, proposer |-> Admin, targets |-> <<"t1">>, values |-> <<0>>,
     calldatas |-> <<"d1">>, start_block |-> 1, end_block |-> 2,
     for_votes |-> for_votes, against_votes |-> against_votes,
     abstain_votes |-> abstain_votes, canceled |-> FALSE, executed |-> FALSE, eta |-> 0]

\* proposal 1 with every tally, in its last voting ledger and in the ledger after it
InitQuorum ==
    /\ block \in {2, 3}
    /\ time = 1
    /\ total \in SupplySet
    /\ balance = [a \in Addr |-> IF a = Admin THEN total ELSE 0]
    /\ allow = [o \in Addr, s \in Addr |-> 0]
    /\ delegat = [a \in Addr |-> NoAddr]
    /\ chk = _write_checkpoint([a \in Addr |-> <<>>], Admin, total, 1)
    /\ config \in { GovernanceConfig(0, 1, 0, qn, 0) : qn \in NumeratorSet }
    /\ tl_delay = 0
    /\ propct = 1
    /\ props \in { <<Tallied(f, a, b)>> : f \in ForSet, a \in AgainstSet, b \in AbstainSet }
    /\ votes = [p \in 1..MaxProposals, a \in Addr |-> NoVote]
    /\ queued = {}
    /\ last = Result("initialize", "Ok")

QuorumReached == quorum_reached_call(props[1], config.quorum_numerator)

ProposalSucceeded == proposal_succeeded_call(props[1], config.quorum_numerator)

GetState == \E proposal_id \in 1..MaxProposals : state_call(proposal_id)

NextQuorum ==
    \/ QuorumReached
    \/ ProposalSucceeded
    \/ GetState

\* the quorum and the outcome of a vote, over every supply, numerator and tally
SpecQuorum == InitQuorum /\ [][NextQuorum]_vars

\* every holder delegates, to any account and to itself
DelegateAny == \E delegator \in Holders, delegatee \in Addr :
    delegate(delegator, delegatee)

NextDelegate ==
    \/ TokenAdvanceBlock
    \/ Transfer
    \/ DelegateAny

\* the token with both holders delegating
SpecDelegate == InitTokenOnly /\ [][NextDelegate]_vars

\* the admin hands tokens to alice
Fund == \E amount \in Amounts \ {0} :
    transfer(Admin, "alice", amount)

\* alice sends to the others, any amount and 0
AliceTransfer == \E to \in Addr \ {"alice"}, amount \in Amounts :
    transfer("alice", to, amount)

AliceApprove == \E amount \in Amounts \ {0} :
    approve("alice", "bob", amount)

\* bob spends from alice
AliceTransferFrom == \E to \in Addr \ {"alice"}, amount \in Amounts :
    transfer_from("bob", "alice", to, amount)

NextSender ==
    \/ TokenAdvanceBlock
    \/ Fund
    \/ AliceTransfer
    \/ AliceApprove
    \/ AliceTransferFrom
    \/ Delegate

\* one sender: alice transfers what she was given, and bob on her allowance
SpecSender == InitTokenOnly /\ [][NextSender]_vars

\* the transactions handed to the Timelock: the admin queues calls of t1 only, and
\* names t1 or t2 when it executes or cancels
QueueTargets == {"t1"}
Targets == {"t1", "t2"}
Calldatas == {"d1", "d2"}
Etas == 0..(MaxTime + 1)

InitTimelock == Init /\ config = Config0

QueueTransaction == \E target \in QueueTargets, data \in Calldatas, eta \in Etas :
    Timelock_queue_transaction(target, 0, data, eta)

ExecuteTransaction == \E target \in Targets, data \in Calldatas, eta \in Etas :
    Timelock_execute_transaction(target, 0, data, eta)

CancelTransaction == \E target \in Targets, data \in Calldatas, eta \in Etas :
    Timelock_cancel_transaction(target, 0, data, eta)

NextTimelock ==
    \/ AdvanceTime
    \/ QueueTransaction
    \/ ExecuteTransaction
    \/ CancelTransaction

\* the Timelock called by its admin directly
SpecTimelock == InitTimelock /\ [][NextTimelock]_vars

\* alice allows bob her whole balance and more
AllowAll == approve("alice", "bob", InitialSupply)

\* transfers of more than alice holds, by her and by bob for her
Overdraw ==
    \/ transfer("alice", Admin, InitialSupply)
    \/ transfer_from("bob", "alice", Admin, InitialSupply)

\* update_config by an account that is not the admin
DeniedUpdate == \E admin \in Addr \ {Admin}, new_config \in ConfigSet :
    update_config(admin, new_config)

NextAtomic ==
    \/ AdvanceBlock
    \/ AdvanceTime
    \/ Propose
    \/ LifeCastVote
    \/ RecordVote
    \/ Queue
    \/ Execute
    \/ Cancel
    \/ DeniedUpdate
    \/ AllowAll
    \/ Overdraw

\* the calls of the three contracts that can fail, with the ones that lead to them
SpecAtomic == Init /\ [][NextAtomic]_vars


\* record_vote as any caller may call it: any support and any amount, on any id
RecordAny == \E proposal_id \in 1..MaxProposals, support \in Support, v \in 0..MaxRecorded :
    /\ ProposalExists(props, proposal_id) =>
         props[proposal_id].for_votes + props[proposal_id].against_votes
           + props[proposal_id].abstain_votes + v <= MaxRecorded
    /\ record_vote(proposal_id, support, v)

NextTally ==
    \/ AdvanceBlock
    \/ ProposeOne
    \/ CastVote
    \/ RecordAny
    \/ Cancel

\* votes are cast and tallies recorded before, during and after the voting window
SpecTally == Init /\ [][NextTally]_vars


PairIds == 1..MaxPair

\* the single actions of the proposals of a pair: equal in all, or different in the
\* target or in the calldata
PairInputs ==
    { Actions(<<"t1">>, <<0>>, <<"d1">>),
      Actions(<<"t2">>, <<0>>, <<"d1">>),
      Actions(<<"t1">>, <<0>>, <<"d2">>) }

PairPropose == \E in \in PairInputs :
    /\ propct < MaxPair
    /\ propose(Admin, in.targets, in.values, in.calldatas)

\* the whole supply is recorded For a proposal
PairRecordVote == \E proposal_id \in PairIds :
    /\ ProposalExists(props, proposal_id) => props[proposal_id].for_votes = 0
    /\ record_vote(proposal_id, "For", InitialSupply)

PairQueue == \E proposal_id \in PairIds :
    queue(proposal_id)

PairExecute == \E proposal_id \in PairIds :
    execute(proposal_id)

PairCancel == \E proposal_id \in PairIds :
    cancel(proposal_id, Admin)

NextPair ==
    \/ AdvanceBlock
    \/ AdvanceTime
    \/ PairPropose
    \/ PairRecordVote
    \/ PairQueue
    \/ PairExecute
    \/ PairCancel

\* the Timelock's own delay is 0, so that queue is not refused
InitPair == Init /\ tl_delay = 0

\* two proposals of the admin go through queue, execute and cancel side by side
SpecPair == InitPair /\ [][NextPair]_vars

(* ------------------------------------------------------------ properties *)

Blocks == 0..MaxBlock
ProposalIds == 1..MaxProposals

\* C1: once the ledger sequence is greater than b, get_prior_votes(a, b) answers the
\* same after every later transfer, transfer_from, delegate and approve.
SnapshotImmutable ==
    [][\A a \in Addr, b \in Blocks :
         b < block => get_prior_votes(chk', a, b) = get_prior_votes(chk, a, b)]_vars

\* an account whose power changed after block b, with the ledger past the change:
\* the query at b and the query after the change give different answers
SnapshotKept ==
    \E a \in Addr, b \in Blocks :
        /\ b + 1 < block
        /\ Len(chk[a]) >= 2
        /\ get_prior_votes(chk, a, b) > 0
        /\ get_prior_votes(chk, a, block - 1) < get_prior_votes(chk, a, b)

\* C2: every VoteRecord stored for proposal p carries the voter's checkpointed power
\* as of p.start_block.
VotesAreStartBlockPower ==
    \A p \in ProposalIds, v \in Addr :
        (/\ ProposalExists(props, p)
         /\ has_voted(votes, p, v)
         /\ props[p].start_block < block)
        => votes[p, v].votes = get_prior_votes(chk, v, props[p].start_block)

\* a step that may be a cast_vote: it stores a record or leaves cast_vote's error
CastVoteStep == votes' # votes \/ last'.op = "cast_vote"

\* C3: after a successful cast_vote for (proposal, voter) every later cast_vote for
\* the pair fails with AlreadyVoted, whatever the support and the snapshot block, and
\* the stored VoteRecord stays as first written.
NoDoubleVoting ==
    [][CastVoteStep =>
         \A p \in ProposalIds, v \in Addr :
            has_voted(votes, p, v) =>
               /\ votes'[p, v] = votes[p, v]
               /\ \A s \in Blocks, sup \in Support :
                    cast_vote(p, s, v, sup) => last' = Result("cast_vote", "AlreadyVoted")]_vars

\* a second cast_vote has just been rejected
DoubleVoteRejected ==
    /\ last = Result("cast_vote", "AlreadyVoted")
    /\ \E p \in ProposalIds, v \in Addr : has_voted(votes, p, v)

\* the account's voting power first became non-zero at a block later than s, which
\* the ledger has passed, and the account holds tokens now
PowerOnlyAfter(account, s) ==
    /\ s < block
    /\ \A i \in 1..Len(chk[account]) :
         chk[account][i].from_block <= s => chk[account][i].votes = 0
    /\ get_current_votes(chk, account) > 0
    /\ balance[account] > 0

\* C4 as stated: such an account has no prior votes at s, and its cast_vote with
\* snapshot_block = s fails with InsufficientBalance and stores nothing.
FlashLoanInsufficientBalance ==
    [][\A v \in Addr, s \in Blocks :
         PowerOnlyAfter(v, s) =>
            /\ get_prior_votes(chk, v, s) = 0
            /\ CastVoteStep =>
                 \A p \in ProposalIds, sup \in Support :
                    cast_vote(p, s, v, sup) =>
                       (last' = Result("cast_vote", "InsufficientBalance") /\ votes' = votes)]_vars

\* C4 amended: such an account has no prior votes at s, and its cast_vote with
\* snapshot_block = s stores nothing: it fails with AlreadyVoted when the account
\* already has a VoteRecord for the proposal, with InsufficientBalance otherwise.
FlashLoanResistance ==
    [][\A v \in Addr, s \in Blocks :
         PowerOnlyAfter(v, s) =>
            /\ get_prior_votes(chk, v, s) = 0
            /\ CastVoteStep =>
                 \A p \in ProposalIds, sup \in Support :
                    cast_vote(p, s, v, sup) =>
                       /\ votes' = votes
                       /\ last' = Result("cast_vote",
                                         IF has_voted(votes, p, v) THEN "AlreadyVoted"
                                         ELSE "InsufficientBalance")]_vars

\* an account funded after a proposal's start block has just been refused its vote
FlashLoanRefused ==
    \E p \in ProposalIds, v \in Addr :
        /\ ProposalExists(props, p)
        /\ PowerOnlyAfter(v, props[p].start_block)
        /\ ~has_voted(votes, p, v)
        /\ last = Result("cast_vote", "InsufficientBalance")

\* the declared edges of the proposal state machine
Edges ==
    { <<"Pending", "Active">>, <<"Active", "Defeated">>, <<"Active", "Succeeded">>,
      <<"Succeeded", "Queued">>, <<"Queued", "Executed">>, <<"Queued", "Expired">> }

Edge(s, t) == s = t \/ <<s, t>> \in Edges \/ (s # "Executed" /\ t = "Canceled")

\* C5: between two consecutive observations state(p) stays or follows a declared edge.
DeclaredEdgesOnly ==
    [][\A p \in ProposalIds :
         ProposalExists(props, p) => Edge(State(p), State(p)')]_vars

\* C6: state(p) is the first matching rule of the list, with the grace period of
\* 1,209,600 seconds.
StateIsFirstMatch ==
    \A p \in ProposalIds :
        ProposalExists(props, p) =>
            LET pr == props[p]
                open == ~pr.canceled /\ ~pr.executed
                closed == open /\ block > pr.end_block
                won == proposal_succeeded(total, pr.for_votes, pr.against_votes,
                                          pr.abstain_votes, config.quorum_numerator)
            IN  /\ pr.canceled => State(p) = "Canceled"
                /\ (~pr.canceled /\ pr.executed) => State(p) = "Executed"
                /\ (open /\ block < pr.start_block) => State(p) = "Pending"
                /\ (open /\ block >= pr.start_block /\ block <= pr.end_block)
                      => State(p) = "Active"
                /\ (closed /\ ~won) => State(p) = "Defeated"
                /\ (closed /\ won /\ pr.eta = 0) => State(p) = "Succeeded"
                /\ (closed /\ won /\ pr.eta # 0 /\ time > pr.eta + 1209600)
                      => State(p) = "Expired"
                /\ (closed /\ won /\ pr.eta # 0 /\ time <= pr.eta + 1209600)
                      => State(p) = "Queued"

\* a queued proposal whose grace period has run out
StateExpired ==
    \E p \in ProposalIds :
        /\ ProposalExists(props, p)
        /\ State(p) = "Expired"
        /\ time > props[p].eta + 1209600

\* C7: executed is set only at a time >= eta, and queue sets eta at least
\* timelock_delay seconds after the time of the call.
TimelockDelayKept ==
    [][\A p \in ProposalIds :
         ProposalExists(props, p) =>
            /\ (~props[p].executed /\ props'[p].executed) =>
                  (props[p].eta # 0 /\ time' >= props[p].eta)
            /\ (props'[p].eta # props[p].eta /\ props'[p].eta # 0) =>
                  props'[p].eta >= time + config.timelock_delay]_vars

\* a proposal executed after a delay that was not zero
ExecutedAfterDelay ==
    \E p \in ProposalIds :
        /\ ProposalExists(props, p)
        /\ props[p].executed
        /\ props[p].eta > 1
        /\ time >= props[p].eta

\* a step that may be an execute: it writes a proposal or leaves execute's error
ExecuteStep == props' # props \/ last'.op = "execute"

\* the hashes of the proposal's Timelock entries
EntryHashes(proposal) ==
    { _get_tx_hash(proposal.targets[i], proposal.values[i], proposal.calldatas[i],
                   proposal.eta) : i \in 1..Len(proposal.targets) }

\* C8: execute of a Queued proposal at a time >= eta succeeds: every entry leaves
\* the Timelock and executed is set.
QueuedProposalExecutes ==
    [][ExecuteStep =>
         \A p \in ProposalIds :
            (/\ ProposalExists(props, p)
             /\ State(p) = "Queued"
             /\ time >= props[p].eta
             /\ execute(p))
            => /\ last'.res = "Ok"
               /\ props'[p].executed
               /\ EntryHashes(props[p]) \cap queued' = {}]_vars

\* C9: execute fails with InvalidState when state(p) is not Queued and with
\* TimelockNotExpired when it is Queued before eta; the proposal and the Timelock
\* entries are then as before.
ExecuteRejected ==
    [][ExecuteStep =>
         \A p \in ProposalIds :
            (ProposalExists(props, p) /\ execute(p)) =>
               /\ State(p) # "Queued" =>
                     /\ last' = Result("execute", "InvalidState")
                     /\ props' = props /\ queued' = queued
               /\ (State(p) = "Queued" /\ time < props[p].eta) =>
                     /\ last' = Result("execute", "TimelockNotExpired")
                     /\ props' = props /\ queued' = queued]_vars

\* execute has just been refused before eta: the proposal is still queued
ExecuteTooEarly ==
    \E p \in ProposalIds :
        /\ ProposalExists(props, p)
        /\ last = Result("execute", "TimelockNotExpired")
        /\ State(p) = "Queued"
        /\ time < props[p].eta
        /\ ~props[p].executed
        /\ EntryHashes(props[p]) \subseteq queued

\* C10: canceled and executed never go back to false, and state(p) stays Canceled
\* (Executed) from then on.
FlagsAreOneWay ==
    [][\A p \in ProposalIds :
         ProposalExists(props, p) =>
            /\ props[p].canceled => (props'[p].canceled /\ State(p)' = "Canceled")
            /\ props[p].executed => (props'[p].executed /\ State(p)' = "Executed")]_vars

\* a step that may be a queue: it writes a proposal or leaves queue's error
QueueStep == props' # props \/ last'.op = "queue"

ProposeStep == propct' # propct \/ last'.op = "propose"

\* the arrays handed to propose have one length, which is not 0
WellFormed(in) ==
    /\ Len(in.targets) = Len(in.values)
    /\ Len(in.targets) = Len(in.calldatas)
    /\ Len(in.targets) > 0

\* the account's newest checkpoint older than the current block carries at least
\* min votes
PowerBeforeBlock(account, min) ==
    \E i \in 1..Len(chk[account]) :
        /\ chk[account][i].from_block < block
        /\ chk[account][i].votes >= min
        /\ (i < Len(chk[account]) => chk[account][i + 1].from_block >= block)

\* C12 as stated: propose succeeds only with prior votes >= proposal_threshold, and
\* otherwise fails with BelowProposalThreshold, allocating no id and storing nothing.
ProposeBelowThreshold ==
    [][ProposeStep =>
         \A proposer \in Addr, in \in ProposalInputs :
            propose(proposer, in.targets, in.values, in.calldatas) =>
               IF get_prior_votes(chk, proposer, block - 1) >= config.proposal_threshold
               THEN TRUE
               ELSE /\ last' = Result("propose", "BelowProposalThreshold")
                    /\ propct' = propct /\ props' = props]_vars

\* C12 amended: propose succeeds only if a checkpoint older than the current block
\* gives the proposer proposal_threshold votes; without it propose allocates no id and
\* stores nothing, failing with BelowProposalThreshold when the arrays are well formed
\* and with the arrays' own error otherwise.
ProposeThreshold ==
    [][ProposeStep =>
         \A proposer \in Addr, in \in ProposalInputs :
            propose(proposer, in.targets, in.values, in.calldatas) =>
               /\ last'.res = "Ok" => PowerBeforeBlock(proposer, config.proposal_threshold)
               /\ ~PowerBeforeBlock(proposer, config.proposal_threshold) =>
                     /\ propct' = propct /\ props' = props
                     /\ last' = Result("propose",
                                       IF WellFormed(in) THEN "BelowProposalThreshold"
                                       ELSE IF Len(in.targets) = 0 /\ Len(in.values) = 0
                                               /\ Len(in.calldatas) = 0
                                            THEN "InvalidProposal"
                                       ELSE "ArrayLengthMismatch")]_vars

\* an account that holds proposal_threshold votes since the current block only has
\* just been refused
SameBlockFundingRefused ==
    \E a \in Addr :
        /\ get_current_votes(chk, a) >= config.proposal_threshold
        /\ ~PowerBeforeBlock(a, config.proposal_threshold)
        /\ \A b \in Addr \ {a} : get_current_votes(chk, b) < config.proposal_threshold
        /\ last = Result("propose", "BelowProposalThreshold")
        /\ propct = 0 /\ props = <<>>

\* C13: propose fails with ArrayLengthMismatch when targets, values and calldatas
\* differ in length and with InvalidProposal when they are empty, storing nothing;
\* every stored proposal has non-empty arrays of one length.
ProposeArrays ==
    [][/\ ProposeStep =>
            \A proposer \in Addr, in \in ProposalInputs :
               propose(proposer, in.targets, in.values, in.calldatas) =>
                  /\ (Len(in.targets) # Len(in.values) \/ Len(in.targets) # Len(in.calldatas))
                        => /\ last' = Result("propose", "ArrayLengthMismatch")
                           /\ propct' = propct /\ props' = props
                  /\ (Len(in.targets) = 0 /\ Len(in.values) = 0 /\ Len(in.calldatas) = 0)
                        => /\ last' = Result("propose", "InvalidProposal")
                           /\ propct' = propct /\ props' = props
       /\ \A p \in DOMAIN props' : WellFormed(props'[p])]_vars

\* arrays of different lengths have just been refused, with a proposer above the
\* threshold
ArraysRefused ==
    /\ last = Result("propose", "ArrayLengthMismatch")
    /\ get_prior_votes(chk, Admin, block - 1) >= config.proposal_threshold
    /\ propct = 0 /\ props = <<>>

\* C14: queue fails with ProposalNotSucceeded unless state(p) is Succeeded; when it
\* succeeds it stores eta = time + timelock_delay, every entry of the proposal is
\* queued in the Timelock with that eta and state(p) is Queued; a proposal with an eta
\* never reads Succeeded, so a second queue fails.
QueueOnlySucceeded ==
    [][\A p \in ProposalIds :
         /\ (ProposalExists(props, p) /\ QueueStep /\ queue(p)) =>
               /\ State(p) # "Succeeded" =>
                     /\ last' = Result("queue", "ProposalNotSucceeded")
                     /\ props' = props /\ queued' = queued
               /\ last'.res = "Ok" =>
                     /\ props'[p].eta = time + config.timelock_delay
                     /\ \A i \in 1..Len(props[p].targets) :
                          is_queued(queued', _get_tx_hash(props[p].targets[i], props[p].values[i],
                                                          props[p].calldatas[i],
                                                          time + config.timelock_delay))
                     /\ State(p)' = "Queued"
                     /\ queue_result(p)' = "ProposalNotSucceeded"
         /\ (ProposalExists(props', p) /\ props'[p].eta # 0) =>
               (State(p)' # "Succeeded" /\ queue_result(p)' = "ProposalNotSucceeded")]_vars

\* a second queue of a queued proposal has just been refused
SecondQueueRefused ==
    \E p \in ProposalIds :
        /\ ProposalExists(props, p)
        /\ State(p) = "Queued"
        /\ EntryHashes(props[p]) \subseteq queued
        /\ last = Result("queue", "ProposalNotSucceeded")

\* a step that may be a cancel: it writes a proposal or leaves cancel's error
CancelStep == props' # props \/ last'.op = "cancel"

\* C15: cancel by a canceller who is neither the proposer nor the admin fails with
\* Unauthorized and changes nothing; cancel by the proposer or the admin of a proposal
\* that is not executed succeeds, whatever its state, and state(p) is then Canceled.
CancelAuthorized ==
    [][CancelStep =>
         \A p \in ProposalIds, canceller \in Addr :
            (ProposalExists(props, p) /\ cancel(p, canceller)) =>
               /\ (canceller # props[p].proposer /\ canceller # Admin) =>
                     /\ last' = Result("cancel", "Unauthorized")
                     /\ props' = props /\ queued' = queued
               /\ ((canceller = props[p].proposer \/ canceller = Admin) /\ ~props[p].executed) =>
                     /\ last'.res = "Ok"
                     /\ props'[p].canceled
                     /\ State(p)' = "Canceled"]_vars

\* a queued proposal that its proposer, who is not the admin, could cancel and that
\* reads Canceled
CanceledAfterQueue ==
    \E p \in ProposalIds :
        /\ ProposalExists(props, p)
        /\ props[p].proposer # Admin
        /\ props[p].eta > 0
        /\ State(p) = "Canceled"
        /\ last.res = "Ok"

\* C16: cancel of an executed proposal by its proposer or the admin fails with
\* ProposalAlreadyExecuted; canceled stays false and state(p) stays Executed.
CancelExecutedRefused ==
    [][CancelStep =>
         \A p \in ProposalIds, canceller \in Addr :
            (/\ ProposalExists(props, p)
             /\ props[p].executed
             /\ (canceller = props[p].proposer \/ canceller = Admin)
             /\ cancel(p, canceller))
            => /\ last' = Result("cancel", "ProposalAlreadyExecuted")
               /\ props' = props /\ queued' = queued
               /\ ~props'[p].canceled
               /\ State(p)' = "Executed"]_vars

\* cancel has just been refused on an executed proposal
CancelAfterExecution ==
    \E p \in ProposalIds :
        /\ ProposalExists(props, p)
        /\ props[p].executed /\ ~props[p].canceled
        /\ State(p) = "Executed"
        /\ last = Result("cancel", "ProposalAlreadyExecuted")

\* C17: a successful cancel of a proposal with eta > 0 leaves none of the proposal's
\* entries queued in the Timelock: is_queued is false for each of them and
\* execute_transaction refuses each of them at every time.
CancelClearsTimelock ==
    [][CancelStep =>
         \A p \in ProposalIds, canceller \in Addr :
            (/\ ProposalExists(props, p)
             /\ props[p].eta > 0
             /\ cancel(p, canceller)
             /\ last'.res = "Ok")
            => \A i \in 1..Len(props[p].targets) :
                  /\ ~is_queued(queued', _get_tx_hash(props[p].targets[i], props[p].values[i],
                                                       props[p].calldatas[i], props[p].eta))
                  /\ \A t \in Times :
                        execute_transaction(queued', props[p].targets[i], props[p].values[i],
                                            props[p].calldatas[i], props[p].eta, t).err # "Ok"]_vars

\* a proposal with two entries was cancelled while its entries were queued and
\* executable: the Timelock holds none of them
QueuedCancelCleared ==
    \E p \in ProposalIds :
        /\ ProposalExists(props, p)
        /\ props[p].canceled
        /\ props[p].eta > 0 /\ time >= props[p].eta /\ time <= props[p].eta + GRACE_PERIOD
        /\ Cardinality(EntryHashes(props[p])) = 2
        /\ EntryHashes(props[p]) \cap queued = {}
        /\ last.res = "Ok"

\* C18: each account's checkpoints have strictly increasing from_block; a write in the
\* block of the last checkpoint replaces its votes and keeps the count, any other
\* write appends one checkpoint of the current block.
CheckpointMonotonic ==
    [][\A a \in Addr :
         /\ \A i \in 1..(Len(chk'[a]) - 1) : chk'[a][i].from_block < chk'[a][i + 1].from_block
         /\ chk'[a] # chk[a] =>
               LET n == Len(chk[a])
               IN  IF n > 0 /\ chk[a][n].from_block = block
                   THEN /\ Len(chk'[a]) = n
                        /\ SubSeq(chk'[a], 1, n - 1) = SubSeq(chk[a], 1, n - 1)
                        /\ chk'[a][n].from_block = block
                   ELSE /\ Len(chk'[a]) = n + 1
                        /\ SubSeq(chk'[a], 1, n) = chk[a]
                        /\ chk'[a][n + 1].from_block = block]_vars

\* the admin's checkpoint of ledger 1 no longer carries the votes initialize and the
\* distribution gave it (it was written again in ledger 1 and is still the only one
\* of that ledger), and a write in ledger 2 has appended a second checkpoint
CheckpointRewritten ==
    /\ Len(chk[Admin]) = 2
    /\ chk[Admin][1] = Checkpoint(1, 0)
    /\ chk[Admin][2].from_block = 2
    /\ chk[Admin][2].votes = InitialSupply
\* the answer of a scan of the whole list: the votes of the checkpoint with the
\* greatest from_block <= block_number, 0 when there is none
ScanVotes(list, block_number) ==
    LET S == { i \in 1..Len(list) : list[i].from_block <= block_number }
    IN  IF S = {} THEN 0
        ELSE list[CHOOSE i \in S : \A j \in S : list[j].from_block <= list[i].from_block].votes

\* C19: for every account, checkpoint list and block_number < current_block,
\* get_prior_votes returns the votes of the checkpoint with the greatest
\* from_block <= block_number, and 0 when the account has no checkpoint or
\* block_number precedes the first one; the binary search agrees with a linear scan.
PriorVotesIsScan ==
    [][(last'.op = "get_prior_votes" /\ last'.block_number < block) =>
          /\ last'.res = "Ok"
          /\ last'.votes = ScanVotes(chk[last'.account], last'.block_number)
          /\ (\/ chk[last'.account] = <<>>
              \/ last'.block_number < chk[last'.account][1].from_block) => last'.votes = 0]_vars

\* a list of five checkpoints asked about the block of its second one, whose votes
\* differ from those of its neighbours: the loop runs twice and ends on the exact match
SearchFoundExact ==
    /\ last.op = "get_prior_votes" /\ last.res = "Ok" /\ last.account = "alice"
    /\ Len(chk["alice"]) = 5
    /\ chk["alice"][2].from_block = last.block_number
    /\ chk["alice"][2].votes = last.votes
    /\ chk["alice"][1].votes # last.votes /\ chk["alice"][3].votes # last.votes

\* C20: get_prior_votes fails with InvalidCheckpoint whenever block_number >= current_block,
\* for accounts with and without checkpoints.
CurrentBlockRefused ==
    [][(last'.op = "get_prior_votes" /\ last'.block_number >= block) =>
          last'.res = "InvalidCheckpoint"]_vars

\* the votes of a checkpoint written in the current block, asked for as a snapshot
PriorVotesOfCurrentBlock ==
    /\ last.op = "get_prior_votes" /\ last.res = "InvalidCheckpoint"
    /\ last.account = "alice" /\ last.block_number = block
    /\ chk["alice"] # <<>>
    /\ chk["alice"][Len(chk["alice"])].from_block = block
    /\ chk["alice"][Len(chk["alice"])].votes > 0
\* the votes cast on proposal 1
Cast == props[1].for_votes + props[1].against_votes + props[1].abstain_votes

\* Cast >= floor(total * quorum_numerator / 100): with r the remainder of the division,
\* the floor is (total * quorum_numerator - r) / 100
CastIsQuorum ==
    \E r \in 0..99 :
        /\ (total * config.quorum_numerator - r) % 100 = 0
        /\ 100 * Cast >= total * config.quorum_numerator - r

\* C21: quorum_reached returns true iff for_votes + against_votes + abstain_votes
\* >= floor(total_supply * quorum_numerator / 100).
QuorumIsFloor ==
    [][last'.op = "quorum_reached" => last'.value = CastIsQuorum]_vars

\* 1,000,000 tokens and a numerator of 50: 500,000 votes reach the quorum
QuorumAtHalf ==
    /\ last.op = "quorum_reached" /\ last.value = TRUE
    /\ total = 1000000 /\ config.quorum_numerator = 50
    /\ Cast = 500000

\* C22: proposal_succeeded returns true iff the quorum is reached and for_votes >
\* against_votes; a tie fails, and state() of a tied proposal after end_block is Defeated.
TieIsDefeated ==
    [][/\ last'.op = "proposal_succeeded" =>
             /\ last'.value = (CastIsQuorum /\ props[1].for_votes > props[1].against_votes)
             /\ props[1].for_votes = props[1].against_votes => last'.value = FALSE
       /\ (/\ last'.op = "state" /\ last'.res = "Ok"
           /\ block > props[1].end_block
           /\ props[1].for_votes = props[1].against_votes) => last'.value = "Defeated"]_vars

\* a tie of 499,999 to 499,999 with the quorum of 500,000 reached, after end_block
TieWithQuorum ==
    /\ last.op = "state" /\ last.value = "Defeated"
    /\ block > props[1].end_block
    /\ total = 1000000 /\ config.quorum_numerator = 50
    /\ props[1].for_votes = 499999 /\ props[1].against_votes = 499999
    /\ props[1].abstain_votes = 1
\* the step may be a call of delegate
DelegateStep == delegat' # delegat \/ (last'.res = "Ok" /\ balance' = balance)

\* C23 as stated: after delegate(A, B), A has no votes, B has A's balance more, and
\* no balance has changed -- for every delegator and delegatee.
DelegationEmptiesDelegator ==
    [][DelegateStep =>
          \A A \in Holders, B \in Addr :
              delegate(A, B) =>
                  /\ get_current_votes(chk', A) = 0
                  /\ get_current_votes(chk', B) = get_current_votes(chk, B) + balance[A]
                  /\ balance' = balance]_vars

\* C23: delegate(A, B) changes no balance; it takes A's balance from the votes of A's
\* delegate so far (A itself when A never delegated) and adds it to those of B, unless
\* B is that delegate already; A is left without votes when it was its own delegate,
\* held no votes delegated by others, and B is another account.
DelegationMovesPower ==
    [][DelegateStep =>
          \A A \in Holders, B \in Addr :
              delegate(A, B) =>
                  LET C == _delegates(delegat, A)
                      b == balance[A]
                  IN  /\ balance' = balance /\ total' = total /\ allow' = allow
                      /\ (C = B \/ b = 0) => chk' = chk
                      /\ (C # B /\ b > 0) =>
                            /\ get_current_votes(chk', C) =
                                  IF get_current_votes(chk, C) >= b
                                  THEN get_current_votes(chk, C) - b ELSE 0
                            /\ get_current_votes(chk', B) = get_current_votes(chk, B) + b
                            /\ \A o \in Addr \ {B, C} : chk'[o] = chk[o]
                      /\ (C = A /\ B # A /\ get_current_votes(chk, A) = b) =>
                            /\ get_current_votes(chk', A) = 0
                            /\ get_current_votes(chk', B) = get_current_votes(chk, B) + b]_vars

\* alice has delegated her tokens to bob, who holds none: she keeps the tokens and has
\* no votes, bob has her balance in votes
DelegatedToBob ==
    /\ delegat["alice"] = "bob"
    /\ balance["alice"] > 0 /\ balance["bob"] = 0
    /\ get_current_votes(chk, "alice") = 0
    /\ get_current_votes(chk, "bob") = balance["alice"]
\* C24: transfer and transfer_from with amount > balance_of(from) fail with
\* InsufficientBalance and leave balances, allowances, delegates and checkpoints unchanged.
OverdraftRefused ==
    [][\A from \in Addr, to \in Addr, amount \in Amounts :
          amount > balance[from] =>
              /\ transfer(from, to, amount) =>
                    /\ last' = Result("transfer", "InsufficientBalance")
                    /\ UNCHANGED tokenVars
              /\ \A spender \in Spenders :
                    transfer_from(spender, from, to, amount) =>
                        /\ last' = Result("transfer_from", "InsufficientBalance")
                        /\ UNCHANGED tokenVars]_vars

\* bob's transfer_from was refused although alice's allowance covers every amount: it
\* passed the allowance and failed on her balance, and the allowance is as it was
OverdraftOnAllowance ==
    /\ last = Result("transfer_from", "InsufficientBalance")
    /\ allow["alice", "bob"] = InitialSupply
    /\ balance["alice"] < InitialSupply

\* C25: a transfer or transfer_from of amount 0 succeeds and changes no balance,
\* allowance, delegate or checkpoint, whatever the sender's balance and allowance.
ZeroAmountNoop ==
    [][\A from \in Addr, to \in Addr :
          /\ transfer(from, to, 0) => (last'.res = "Ok" /\ UNCHANGED tokenVars)
          /\ \A spender \in Spenders :
                transfer_from(spender, from, to, 0) =>
                    (last'.res = "Ok" /\ UNCHANGED tokenVars)]_vars

\* bob's transfer_from of 0 from alice has returned, alice holding no tokens and bob
\* no allowance of hers
ZeroFromEmptyAccount ==
    /\ last = Returns("transfer_from")
    /\ balance["alice"] = 0 /\ chk["alice"] = <<>>
    /\ allow["alice", "bob"] = 0
\* the step may be a call of update_config
UpdateConfigStep == config' # config /\ propct' = propct

\* C26: update_config leaves start_block and end_block of every existing proposal, and
\* what state() returns for it at any block and time with the tallies it has.
ConfigNotRetroactive ==
    [][UpdateConfigStep =>
          \A new_config \in ConfigSet :
              update_config(Admin, new_config) =>
                  \A p \in DOMAIN props :
                      /\ props'[p].start_block = props[p].start_block
                      /\ props'[p].end_block = props[p].end_block
                      /\ \A b \in Blocks, t \in Times :
                            state(props', p, b, t, config', total')
                              = state(props, p, b, t, config, total)]_vars

\* a proposal past its voting window that the configuration in force reports Defeated
\* and the other configuration would report Succeeded
QuorumDecidesOutcome ==
    \E p \in DOMAIN props : \E other \in ConfigSet :
        /\ block > props[p].end_block
        /\ State(p) = "Defeated"
        /\ state(props, p, block, time, other, total) = "Succeeded"
\* the step may be a call of the Timelock
TimelockStep == queued' # queued \/ last' # last

\* C27: queue_transaction fails with TimelockNotExpired and queues nothing when
\* eta < current_time + delay; otherwise it marks the entry queued: is_queued is true
\* for the hash it returns.
QueueTransactionDelay ==
    [][TimelockStep =>
          \A target \in Targets, data \in Calldatas, eta \in Etas :
              Timelock_queue_transaction(target, 0, data, eta) =>
                  IF eta < time + tl_delay
                  THEN /\ last' = Result("queue_transaction", "TimelockNotExpired")
                       /\ queued' = queued
                  ELSE /\ last'.op = "queue_transaction" /\ last'.res = "Ok"
                       /\ is_queued(queued', last'.value)
                       /\ queued' \ queued \subseteq {last'.value}
                       /\ queued \subseteq queued']_vars

\* an entry queued with the earliest eta a delay of 1 allows
QueuedAtDelay ==
    /\ last.op = "queue_transaction" /\ last.res = "Ok"
    /\ is_queued(queued, last.value)
    /\ tl_delay = 1 /\ last.value[3] = time + tl_delay

\* the entry is queued: the admin queues calls of t1 only
EntryQueued(target, value, data, eta) ==
    target \in QueueTargets /\ is_queued(queued, _get_tx_hash(target, value, data, eta))

\* C28: execute_transaction fails with InvalidState if the entry is not queued, with
\* TimelockNotExpired if current_time < eta, with InvalidState if current_time > eta +
\* 14 days; otherwise it succeeds and removes the entry, which cannot be executed
\* again without being queued again.
ExecuteTransactionGuards ==
    [][TimelockStep =>
          \A target \in Targets, data \in Calldatas, eta \in Etas :
              Timelock_execute_transaction(target, 0, data, eta) =>
                  IF ~EntryQueued(target, 0, data, eta)
                  THEN last' = Result("execute_transaction", "InvalidState") /\ queued' = queued
                  ELSE IF time < eta
                  THEN last' = Result("execute_transaction", "TimelockNotExpired")
                       /\ queued' = queued
                  ELSE IF time > eta + GRACE_PERIOD
                  THEN last' = Result("execute_transaction", "InvalidState") /\ queued' = queued
                  ELSE /\ last'.op = "execute_transaction" /\ last'.res = "Ok"
                       /\ ~is_queued(queued', _get_tx_hash(target, 0, data, eta))
                       /\ execute_transaction(queued', target, 0, data, eta, time).err
                             = "InvalidState"]_vars

\* C29: cancel_transaction by the admin always succeeds and leaves the entry not
\* queued, queued before or not; a second cancel of the entry changes nothing more.
CancelTransactionIdempotent ==
    [][TimelockStep =>
          \A target \in Targets, data \in Calldatas, eta \in Etas :
              Timelock_cancel_transaction(target, 0, data, eta) =>
                  /\ last'.op = "cancel_transaction" /\ last'.res = "Ok"
                  /\ ~is_queued(queued', _get_tx_hash(target, 0, data, eta))
                  /\ queued' \subseteq queued
                  /\ queued \ queued' \subseteq {_get_tx_hash(target, 0, data, eta)}
                  /\ cancel_transaction(queued', target, 0, data, eta)
                        = TlResult("Ok", queued')]_vars

\* the cancel of an entry with eta 0, which no queue_transaction accepts, has
\* succeeded while another entry stays queued
CancelOfUnqueued ==
    /\ last.op = "cancel_transaction" /\ last.res = "Ok"
    /\ last.value[3] = 0
    /\ queued # {}
ProposalIdsFresh ==
    [][propct' = propct + 1 =>
          /\ ~ProposalExists(props, propct')
          /\ propct' = Len(props')
          /\ \A p \in DOMAIN props : props'[p] = props[p]
          /\ LET proposal == props'[propct']
             IN  /\ proposal.id = propct'
                 /\ proposal.start_block = block + config.voting_delay
                 /\ proposal.end_block = proposal.start_block + config.voting_period
                 /\ proposal.for_votes = 0 /\ proposal.against_votes = 0
                 /\ proposal.abstain_votes = 0
                 /\ ~proposal.canceled /\ ~proposal.executed /\ proposal.eta = 0]_vars

\* proposal_count reads 0 while a proposal is stored: the next propose returns 1 again
ProposalCountReset ==
    /\ propct = 0
    /\ ProposalExists(props, 1)
    /\ last = Result("initialize", "Ok")
\* C32: for every proposal, for_votes + against_votes + abstain_votes <= total_supply
\* after any sequence of cast_vote and record_vote calls by any callers.
TalliesWithinSupply ==
    \A p \in DOMAIN props :
        props[p].for_votes + props[p].against_votes + props[p].abstain_votes <= total

\* the three tallies of a proposal
Tallies(proposal) == <<proposal.for_votes, proposal.against_votes, proposal.abstain_votes>>

\* C33: the tallies of a proposal never decrease, record_vote changes only the bucket
\* named by its support argument, and the tallies change only while the proposal is in
\* its active window (start_block <= current_block <= end_block, neither canceled nor
\* executed).
TalliesOnlyInWindow ==
    [][props' # props =>
          \A p \in DOMAIN props :
              /\ props'[p].for_votes >= props[p].for_votes
              /\ props'[p].against_votes >= props[p].against_votes
              /\ props'[p].abstain_votes >= props[p].abstain_votes
              /\ \A support \in Support, v \in 0..MaxRecorded :
                    record_vote(p, support, v) =>
                        /\ support # "For" => props'[p].for_votes = props[p].for_votes
                        /\ support # "Against" => props'[p].against_votes = props[p].against_votes
                        /\ support # "Abstain" => props'[p].abstain_votes = props[p].abstain_votes
              /\ Tallies(props'[p]) # Tallies(props[p]) =>
                    /\ props[p].start_block <= block /\ block <= props[p].end_block
                    /\ ~props[p].canceled /\ ~props[p].executed]_vars

\* a proposal whose voting has not started carries votes: they were recorded while it
\* was Pending
TallyBeforeWindow ==
    \E p \in DOMAIN props :
        /\ block < props[p].start_block
        /\ props[p].for_votes + props[p].against_votes + props[p].abstain_votes > 0

\* _move_delegates(from, to, amount) does not reach its floor: it moves nothing, or
\* `from` has the votes it takes
Covered(from, to, amount) ==
    (from # to /\ amount > 0) => get_current_votes(chk, from) >= amount

\* C34: whenever _move_delegates(from, to, amount) runs with from != to and amount > 0,
\* get_current_votes(from) >= amount, under any sequence of initialize, transfer and
\* delegate calls.
FloorNeverTaken ==
    [][chk' # chk =>
          \A from \in Addr, to \in Addr :
              /\ \A amount \in 1..MaxHeld :
                    (transfer(from, to, amount) /\ last'.res = "Ok") =>
                        Covered(_delegates(delegat, from), _delegates(delegat, to), amount)
              /\ delegate(from, to) =>
                    Covered(_delegates(delegat, from), to, _get_balance(balance, from))]_vars

\* an account holds more tokens than its delegate has votes: the transfer of its
\* balance takes the floor
VotesBelowBalance ==
    \E a \in Addr :
        get_current_votes(chk, _delegates(delegat, a)) < _get_balance(balance, a)

\* the tuples (target, data, eta) the Timelock is called with; the value is 0
Tuples == Targets \X Calldatas \X Etas

\* the Timelock's answer to is_queued for the entry of a tuple
TupleQueued(q, tuple) == is_queued(q, _get_tx_hash(tuple[1], 0, tuple[2], tuple[3]))

\* C35: queue_transaction, execute_transaction and cancel_transaction affect only the
\* entry of exactly their tuple (target, value, data, eta): the entry of every other
\* tuple, one that differs only in target included, is queued after the call iff it
\* was queued before.
EntriesKeyedByTuple ==
    [][TimelockStep =>
          \A tuple \in Tuples :
              (\/ Timelock_queue_transaction(tuple[1], 0, tuple[2], tuple[3])
               \/ Timelock_execute_transaction(tuple[1], 0, tuple[2], tuple[3])
               \/ Timelock_cancel_transaction(tuple[1], 0, tuple[2], tuple[3]))
              => \A other \in Tuples \ {tuple} :
                    TupleQueued(queued', other) = TupleQueued(queued, other)]_vars

\* what account a adds to the votes of d: its balance when d is its delegate
DelegatedBy(a, d) == IF _delegates(delegat, a) = d THEN _get_balance(balance, a) ELSE 0

\* the sum of the balances of the accounts whose delegate is d
DelegatedTo(d) == DelegatedBy("admin", d) + DelegatedBy("alice", d) + DelegatedBy("bob", d)

\* the sum of the current votes of all accounts
VotesHeld ==
    get_current_votes(chk, "admin") + get_current_votes(chk, "alice")
        + get_current_votes(chk, "bob")

\* C36: after any sequence of initialize, transfer, transfer_from, approve and delegate
\* calls, get_current_votes(d) is the sum of balance_of(a) over the accounts a whose
\* delegate (a itself by default) is d, for every account d; the current votes of all
\* accounts add up to the sum of all balances.
VotesMatchBalances ==
    /\ \A d \in Addr : get_current_votes(chk, d) = DelegatedTo(d)
    /\ VotesHeld = Held(balance)

\* the votes of all accounts add up to less than the balances do
VotesLost == VotesHeld < Held(balance)

\* C37: after a single initialize with supply S the balances of all accounts add up to
\* total_supply() = S after any sequence of transfer, transfer_from, approve and
\* delegate calls; a transfer or transfer_from of an account to itself leaves every
\* balance and every checkpoint as it was.
TokenConservation ==
    [][/\ Held(balance) = total /\ total = InitialSupply
       /\ Held(balance') = total' /\ total' = InitialSupply
       /\ \A a \in Addr, amount \in Amounts :
             (\/ transfer(a, a, amount)
              \/ \E spender \in Spenders : transfer_from(spender, a, a, amount))
             => (balance' = balance /\ chk' = chk)]_vars

\* the whole supply has moved from the admin to alice, who has delegated, with an
\* allowance of the admin to bob left
SupplyMoved ==
    /\ balance["alice"] = InitialSupply /\ balance[Admin] = 0 /\ balance["bob"] = 0
    /\ delegat["alice"] = "bob"
    /\ allow[Admin, "bob"] > 0
    /\ total = InitialSupply

\* queue and execute of the proposal are refused, and it is not executed
Refused(p) ==
    /\ queue_result(p) = "ProposalNotSucceeded"
    /\ execute_result(p) = "InvalidState"
    /\ ~props[p].executed

\* C38: no proposal has canceled and executed both true; once a proposal is canceled
\* it stays canceled, so that every later queue fails with ProposalNotSucceeded, every
\* later execute fails with InvalidState, and the proposal is never executed.
CanceledNeverExecuted ==
    [][\A p \in ProposalIds :
          ProposalExists(props, p) =>
              /\ ~(props[p].canceled /\ props[p].executed)
              /\ ~(props'[p].canceled /\ props'[p].executed)
              /\ props[p].canceled =>
                    /\ Refused(p)
                    /\ props'[p].canceled /\ Refused(p)']_vars

\* execute has just been refused on a proposal that was canceled after it was queued
CanceledRefused ==
    \E p \in DOMAIN props :
        /\ props[p].canceled /\ ~props[p].executed
        /\ props[p].eta > 0 /\ time >= props[p].eta
        /\ last = Result("execute", "InvalidState")

\* C39: cast_vote with snapshot_block = p.start_block succeeds only while
\* current_block > p.start_block; in the first Active block (current_block =
\* p.start_block) it fails with InvalidCheckpoint and stores no VoteRecord although
\* state(p) is Active; with p.start_block < current_block a voter with power at
\* start_block who has not voted succeeds.
FirstActiveBlockRefused ==
    [][CastVoteStep =>
          \A p \in ProposalIds, v \in Addr, sup \in Support :
              (ProposalExists(props, p) /\ cast_vote(p, props[p].start_block, v, sup)) =>
                  /\ last'.res = "Ok" => block > props[p].start_block
                  /\ block = props[p].start_block =>
                        /\ State(p) = "Active"
                        /\ last' = Result("cast_vote", "InvalidCheckpoint")
                        /\ votes' = votes
                  /\ (/\ props[p].start_block < block
                      /\ get_prior_votes(chk, v, props[p].start_block) > 0
                      /\ ~has_voted(votes, p, v)) =>
                        /\ last'.res = "Ok"
                        /\ votes'[p, v] =
                              VoteRecord(sup, get_prior_votes(chk, v, props[p].start_block))]_vars

\* a vote was refused with InvalidCheckpoint in the last ledger explored, which is the
\* proposal's start_block: its snapshot block was start_block, nobody has voted, and
\* the proposal is Active
RefusedAtStartBlock ==
    \E p \in DOMAIN props :
        /\ block = MaxVoteBlock /\ props[p].start_block = block
        /\ State(p) = "Active"
        /\ last = Result("cast_vote", "InvalidCheckpoint")
        /\ \A v \in Addr : ~has_voted(votes, p, v)

\* proposal p has just been canceled or executed while proposal q was Queued beside it
EndedBeside(p, q) ==
    /\ p # q
    /\ ProposalExists(props, p) /\ ProposalExists(props, q)
    /\ State(p) = "Queued" /\ State(q) = "Queued"
    /\ State(p)' \in {"Canceled", "Executed"}

\* C40: cancelling or executing a Queued proposal p removes no Timelock entry of
\* another Queued proposal q: q is still Queued with its entries in the Timelock, and
\* its execute succeeds from q.eta on -- also when p and q were queued at the same
\* timestamp with actions of identical value and calldata.
QueuedProposalsIndependent ==
    [][props' # props =>
          \A p \in PairIds, q \in PairIds :
              EndedBeside(p, q) =>
                  /\ State(q)' = "Queued"
                  /\ EntryHashes(props[q]) \subseteq queued'
                  /\ time' >= props[q].eta => execute_result(q)' = "Ok"]_vars

\* a Queued proposal inside its execution window whose entry is not in the Timelock:
\* its execute fails with InvalidState until it expires
QueuedWithoutEntry ==
    \E q \in DOMAIN props :
        /\ State(q) = "Queued"
        /\ time >= props[q].eta
        /\ EntryHashes(props[q]) \cap queued = {}

====
